---- MODULE Spec2Model ----
(***************************************************************************)
(* Model of app_mv_analysis.py: the "MV" dashboard that scores 60-minute   *)
(* occupancy windows against SUSTAIN / PEAK / TOLERANCE and correlates the *)
(* scores with sliding-window loads.                                       *)
(*                                                                         *)
(* The script is a batch pipeline.  One behaviour of the model is one run  *)
(* of the script on one pair of uploaded files:                            *)
(*   LoadFiles -> CheckTV -> ClickCalculate -> (NextDay | NextWindow)*     *)
(*             -> BuildDataFrame -> Overview -> Tabs -> Tranches           *)
(*             -> IdentifyMV -> Export                                     *)
(* A run that calls st.stop() ends in pc = "stopped"; a run in which an    *)
(* exception escapes the Calculate block ends in pc = "crashed".           *)
(*                                                                         *)
(* Numbers.  Occupancies and thresholds are Python floats.  They are       *)
(* modelled in fixed point: the integer v stands for v / Scale, so with    *)
(* Scale = 2 the 0.5 steps of the threshold widgets are representable.     *)
(* A float is a record [k, v]: k = "num" for the number v / Scale and      *)
(* k = "nan" for NaN (which pandas produces for an empty CSV cell).        *)
(* Loads are whole aircraft per hour and are kept as plain integers.       *)
(* What the code rounds (round(x, 2), f"{x:.1f}") is the double of a       *)
(* quotient, and is rounded here as that double is; where the result       *)
(* depends on the installed NumPy, each outcome is a behaviour.            *)
(*                                                                         *)
(* Texts (column names, sector identifiers) are sequences of code points.  *)
(***************************************************************************)
EXTENDS Integers, Sequences, FiniteSets, TLC

\* Resolution of the fixed-point representation: 1.0 is Scale units.
Scale == 2

\* Documented number of per-minute columns of an OCC row.
DayMinutes == 1440

\* Length in minutes of the occupancy window of one LOAD column.
WindowMinutes == 60

\* Minutes per hour in the start index of a window.
HourMinutes == 60

\* Viability bar on a window score used by the MV sections.
ViabilityBar == 30

\* Number of viable windows the "Identification MV" section must exceed.
MinViable == 10

-----------------------------------------------------------------------------
(* Floats                                                                  *)

Num(v) == [k |-> "num", v |-> v]
NaN == [k |-> "nan", v |-> 0]
IsNum(x) == x.k = "num"

\* x <= c for a float x and a number c: every comparison with NaN is False.
FLe(x, c) == IsNum(x) /\ x.v <= c
\* x > c
FGt(x, c) == IsNum(x) /\ x.v > c
\* x + y and x - y: NaN is absorbing.
FAdd(x, y) == IF IsNum(x) /\ IsNum(y) THEN Num(x.v + y.v) ELSE NaN
FSub(x, y) == IF IsNum(x) /\ IsNum(y) THEN Num(x.v - y.v) ELSE NaN

-----------------------------------------------------------------------------
(* Cells of a data frame read by pd.read_csv.  A cell is a number, NaN (an *)
(* empty field) or a text that is not a number, such as "abc".             *)

TxtCell == [k |-> "txt", v |-> 0]

\* float(cell): the number, NaN for NaN, and ValueError for a text.
FloatRaises(cell) == cell.k = "txt"
PyFloat(cell) == IF cell.k = "nan" THEN NaN ELSE Num(cell.v)

-----------------------------------------------------------------------------
(* Scoring functions                                                       *)

\* A variant of the iteration of score_option_a: the minute at the ceiling
\* itself is penalised (a strict comparison).
ScoreAStep_strict(score, occ, sustain, tolerance) ==
    IF IsNum(occ) /\ occ.v < sustain + tolerance THEN FAdd(score, Num(Scale))
    ELSE FSub(score, FSub(FSub(occ, Num(sustain)), Num(tolerance)))

\* One iteration of the loop of score_option_a.
ScoreAStep(score, occ, sustain, tolerance) ==
    IF FLe(occ, sustain + tolerance)
    THEN FAdd(score, Num(Scale))
    ELSE FSub(score, FSub(FSub(occ, Num(sustain)), Num(tolerance)))

\* The loop of score_option_a over occ_minutes[lo..hi], entered with score.
\* The minutes are taken in order, each score handed to the next iteration:
\* the first half of the range is run to its score (half), then the second
\* half is entered with it.  Halving only keeps the evaluation shallow.
RECURSIVE ScoreALoop(_, _, _, _, _, _)
ScoreALoop(occ_minutes, sustain, tolerance, score, lo, hi) ==
    IF lo > hi THEN score
    ELSE IF lo = hi THEN ScoreAStep(score, occ_minutes[lo], sustain, tolerance)
    ELSE CHOOSE last \in
             {ScoreALoop(occ_minutes, sustain, tolerance, half, (lo + hi) \div 2 + 1, hi) :
                 half \in {ScoreALoop(occ_minutes, sustain, tolerance, score,
                                      lo, (lo + hi) \div 2)}} : TRUE

score_option_a(occ_minutes, sustain, tolerance) ==
    ScoreALoop(occ_minutes, sustain, tolerance, Num(0), 1, Len(occ_minutes))

\* Variants of the iteration of score_option_b: the excess over PEAK counted
\* once; no neutral zone; the neutral zone rewarded like the viable one.
ScoreBStep_single(score, occ, sustain, tolerance, peak) ==
    IF FLe(occ, sustain + tolerance) THEN FAdd(score, Num(Scale))
    ELSE IF FLe(occ, peak) THEN FAdd(score, Num(0))
    ELSE FSub(score, FSub(occ, Num(peak)))

ScoreBStep_no_alert(score, occ, sustain, tolerance, peak) ==
    IF FLe(occ, sustain + tolerance) THEN FAdd(score, Num(Scale))
    ELSE FSub(score, IF IsNum(occ) THEN Num((occ.v - peak) * 2) ELSE NaN)

ScoreBStep_alert_rewarded(score, occ, sustain, tolerance, peak) ==
    IF FLe(occ, sustain + tolerance) \/ FLe(occ, peak) THEN FAdd(score, Num(Scale))
    ELSE FSub(score, IF IsNum(occ) THEN Num((occ.v - peak) * 2) ELSE NaN)

\* One iteration of the loop of score_option_b.
ScoreBStep(score, occ, sustain, tolerance, peak) ==
    IF FLe(occ, sustain + tolerance)
    THEN FAdd(score, Num(Scale))
    ELSE IF FLe(occ, peak)
    THEN FAdd(score, Num(0))
    ELSE FSub(score, IF IsNum(occ) THEN Num((occ.v - peak) * 2) ELSE NaN)

\* The loop of score_option_b over occ_minutes[lo..hi], entered with score.
RECURSIVE ScoreBLoop(_, _, _, _, _, _, _)
ScoreBLoop(occ_minutes, sustain, tolerance, peak, score, lo, hi) ==
    IF lo > hi THEN score
    ELSE IF lo = hi THEN ScoreBStep(score, occ_minutes[lo], sustain, tolerance, peak)
    ELSE CHOOSE last \in
             {ScoreBLoop(occ_minutes, sustain, tolerance, peak, half, (lo + hi) \div 2 + 1, hi) :
                 half \in {ScoreBLoop(occ_minutes, sustain, tolerance, peak, score,
                                      lo, (lo + hi) \div 2)}} : TRUE

score_option_b(occ_minutes, sustain, tolerance, peak) ==
    ScoreBLoop(occ_minutes, sustain, tolerance, peak, Num(0), 1, Len(occ_minutes))

-----------------------------------------------------------------------------
(* Strings.  A Python str is modelled as the sequence of the code points   *)
(* of its characters, so that split, strip, str and int act on them.       *)

\* The printable ASCII characters from the space (code point 32) to "_",
\* and from "a" (code point 97) to "~"; between them is the grave accent.
PrintableLow ==
    <<" ", "!", "\"", "#", "$", "%", "&", "'", "(", ")", "*", "+", ",", "-",
      ".", "/", "0", "1", "2", "3", "4", "5", "6", "7", "8", "9", ":", ";",
      "<", "=", ">", "?", "@", "A", "B", "C", "D", "E", "F", "G", "H", "I",
      "J", "K", "L", "M", "N", "O", "P", "Q", "R", "S", "T", "U", "V", "W",
      "X", "Y", "Z", "[", "\\", "]", "^", "_">>
PrintableHigh ==
    <<"a", "b", "c", "d", "e", "f", "g", "h", "i", "j", "k", "l", "m", "n",
      "o", "p", "q", "r", "s", "t", "u", "v", "w", "x", "y", "z", "{", "|",
      "}", "~">>

\* ord(c) of one of these characters, and the str of a run of them.
Ord(c) ==
    IF \E i \in 1..Len(PrintableLow) : PrintableLow[i] = c
    THEN 31 + CHOOSE i \in 1..Len(PrintableLow) : PrintableLow[i] = c
    ELSE 96 + CHOOSE i \in 1..Len(PrintableHigh) : PrintableHigh[i] = c
Text(cs) == [i \in 1..Len(cs) |-> Ord(cs[i])]

\* The characters str.strip() removes (str.isspace): tab, LF, VT, FF, CR,
\* FS, GS, RS, US, space, NEL, NBSP and the Unicode spaces.
WhiteSpace ==
    (9..13) \cup (28..32) \cup {133, 160, 5760} \cup (8192..8202)
        \cup {8232, 8233, 8239, 8287, 12288}

\* The characters int() skips around a number: the same but FS, GS, RS, US.
IntSpace == WhiteSpace \ (28..31)

\* The digit zero of every decimal script int() reads (the characters of
\* Unicode category Nd come in runs of ten, from zero to nine).
DigitZeros ==
    {48, 1632, 1776, 1984, 2406, 2534, 2662, 2790, 2918, 3046, 3174, 3302,
     3430, 3558, 3664, 3792, 3872, 4160, 4240, 6112, 6160, 6470, 6608, 6784,
     6800, 6992, 7088, 7232, 7248, 42528, 43216, 43264, 43472, 43504, 43600,
     44016, 65296, 66720, 68912, 69734, 69872, 69942, 70096, 70384, 70736,
     70864, 71248, 71360, 71472, 71904, 72016, 72784, 73040, 73120, 92768,
     92864, 93008, 120782, 120792, 120802, 120812, 120822, 123200, 123632,
     125264, 130032}

IsDigit(c) == \E z \in DigitZeros : c \in z..(z + 9)
DigitVal(c) == c - (CHOOSE z \in DigitZeros : c \in z..(z + 9))

\* sep in s, for a one-character sep
Contains(s, sep) == \E i \in 1..Len(s) : s[i] = Ord(sep)

\* s.split(sep): the pieces of s between the occurrences of sep.
RECURSIVE Split(_, _)
Split(s, sep) ==
    IF ~Contains(s, sep) THEN <<s>>
    ELSE LET i == CHOOSE j \in 1..Len(s) :
                      s[j] = Ord(sep) /\ \A h \in 1..(j - 1) : s[h] # Ord(sep)
         IN  <<SubSeq(s, 1, i - 1)>> \o Split(SubSeq(s, i + 1, Len(s)), sep)

\* s without its leading and trailing characters of the set space.
RECURSIVE StripOf(_, _)
StripOf(s, space) ==
    IF s = <<>> THEN s
    ELSE IF s[1] \in space THEN StripOf(Tail(s), space)
    ELSE IF s[Len(s)] \in space THEN StripOf(SubSeq(s, 1, Len(s) - 1), space)
    ELSE s

\* s.strip()
Strip(s) == StripOf(s, WhiteSpace)

\* The decimal text of an integer: str(v).
RECURSIVE NatStr(_)
NatStr(v) == IF v < 10 THEN <<48 + v>> ELSE NatStr(v \div 10) \o <<48 + (v % 10)>>
IntStr(v) == IF v < 0 THEN <<Ord("-")>> \o NatStr(0 - v) ELSE NatStr(v)

\* The parts of the text int() reads: the characters between the spaces, a
\* sign if there is one, and the digits after it.
IntText(s) == StripOf(s, IntSpace)
IntSigned(s) == IntText(s) # <<>> /\ IntText(s)[1] \in {Ord("+"), Ord("-")}
IntDigits(s) == IF IntSigned(s) THEN Tail(IntText(s)) ELSE IntText(s)

\* The largest number of digits int() converts from a text
\* (sys.int_info.default_max_str_digits).
MaxStrDigits == 4300

\* int() raises ValueError on the digits ds unless they are a non-empty run
\* of decimal digits in which single underscores may stand between two
\* digits, and of at most MaxStrDigits digits; the underscores, the sign and
\* the spaces around do not count, leading zeros do.
DigitsRaise(ds) ==
    \/ ds = <<>>
    \/ \E i \in 1..Len(ds) :
          /\ ~IsDigit(ds[i])
          /\ ~(/\ ds[i] = Ord("_")
               /\ i > 1 /\ i < Len(ds)
               /\ IsDigit(ds[i - 1]) /\ IsDigit(ds[i + 1]))
    \/ Cardinality({i \in 1..Len(ds) : IsDigit(ds[i])}) > MaxStrDigits

\* int(s) raises ValueError
IntRaises(s) == DigitsRaise(IntDigits(s))

\* A digit other than a zero.
IsNonZero(c) == IsDigit(c) /\ DigitVal(c) # 0

\* The digits from the first one that is not a zero; none when all are zeros.
Significant(ds) ==
    IF \A i \in 1..Len(ds) : ~IsNonZero(ds[i]) THEN <<>>
    ELSE SubSeq(ds,
                CHOOSE i \in 1..Len(ds) :
                    IsNonZero(ds[i]) /\ \A j \in 1..(i - 1) : ~IsNonZero(ds[j]),
                Len(ds))

RECURSIVE DigitsValue(_, _)
DigitsValue(s, acc) ==
    IF s = <<>> THEN acc
    ELSE IF IsDigit(s[1]) THEN DigitsValue(Tail(s), acc * 10 + DigitVal(s[1]))
    ELSE DigitsValue(Tail(s), acc)

\* int(s) when it does not raise
PyInt(s) ==
    IF IntSigned(s) /\ IntText(s)[1] = Ord("-")
    THEN 0 - DigitsValue(Significant(IntDigits(s)), 0)
    ELSE DigitsValue(Significant(IntDigits(s)), 0)

\* A cell of the identifier column as read_csv gives it: a text, a whole
\* number (a column of integers) or NaN (an empty field).
StrCell(s) == [k |-> "str", s |-> s, v |-> 0]
IntCell(v) == [k |-> "int", s |-> <<>>, v |-> v]
NaNCell == [k |-> "nan", s |-> <<>>, v |-> 0]

\* str(cell)
PyStr(cell) ==
    CASE cell.k = "str" -> cell.s
      [] cell.k = "int" -> IntStr(cell.v)
      [] OTHER          -> Text(<<"n", "a", "n">>)

\* The (None, None) of parse_load_column.
NoStart == [ok |-> FALSE, hour |-> 0, minute |-> 0]

parse_load_column(col_name) ==
    LET start_time == Split(col_name, "-")[1]
        parts == Split(start_time, ":")
    IN  IF Len(parts) # 2 THEN NoStart
        ELSE IF IntRaises(parts[1]) \/ IntRaises(parts[2]) THEN NoStart
        ELSE [ok |-> TRUE, hour |-> PyInt(parts[1]), minute |-> PyInt(parts[2])]

-----------------------------------------------------------------------------
(* Python list slicing and window extraction                               *)

\* lst[a:b] for 0 <= a and 0 <= b: both ends are clamped to len(lst).
Min(a, b) == IF a <= b THEN a ELSE b
Slice(lst, a, b) == SubSeq(lst, Min(a, Len(lst)) + 1, Min(b, Len(lst)))

\* The occupancy window of the LOAD column that starts at hour_start:min_start.
ExtractWindow(occ_values, hour_start, min_start) ==
    LET start_idx == hour_start * HourMinutes + min_start
        end_idx == start_idx + WindowMinutes
    IN  IF end_idx <= Len(occ_values)
        THEN Slice(occ_values, start_idx, end_idx)
        ELSE Slice(occ_values, start_idx, Len(occ_values))
             \o Slice(occ_values, 0, end_idx - Len(occ_values))

-----------------------------------------------------------------------------
(* Doubles.  A quotient p / q of two integers is computed by the code as   *)
(* the double nearest to it, fl(p / q), and then rounded to decimals: by   *)
(* round(x, 2), by an f-string, or after a multiplication by 100.  Away    *)
(* from a decimal tie the result is the one of the exact quotient.  On a   *)
(* tie it depends on the side of the quotient on which the double lies,    *)
(* which is computed here from the binary expansion of p / q.              *)

\* num / den rounded to the nearest integer, ties to the even one (den > 0):
\* the rounding of a value that the double holds exactly.
RoundHalfEven(num, den) ==
    LET q == num \div den
        r == num % den
    IN  IF 2 * r < den THEN q
        ELSE IF 2 * r > den THEN q + 1
        ELSE IF q % 2 = 0 THEN q ELSE q + 1

\* The binary exponent e of p / q > 0: 2^e <= p / q < 2^(e + 1).
RECURSIVE Log2Nat(_)
Log2Nat(m) == IF m < 2 THEN 0 ELSE 1 + Log2Nat(m \div 2)
RECURSIVE Log2Below(_, _)
Log2Below(p, q) == IF p >= q THEN 0 ELSE Log2Below(2 * p, q) - 1
Exponent(p, q) == IF p >= q THEN Log2Nat(p \div q) ELSE Log2Below(p, q)

RECURSIVE Pow2(_)
Pow2(k) == IF k = 0 THEN 1 ELSE 2 * Pow2(k - 1)

\* (p * 2^s) mod m
RECURSIVE Pow2Mod(_, _)
Pow2Mod(s, m) == IF s = 0 THEN 1 % m ELSE (2 * Pow2Mod(s - 1, m)) % m
Scaled(p, s, m) == ((p % m) * Pow2Mod(s, m)) % m

\* fl(p / q) - p / q for p, q > 0, in units of 1 / q of the last place of the
\* double (53 significant bits, ties to the even mantissa).
DoubleError(p, q) ==
    LET s == 52 - Exponent(p, q)
        rho == Scaled(p, s, q)
        odd == Scaled(p, s, 2 * q) >= q
    IN  IF 2 * rho < q THEN 0 - rho
        ELSE IF 2 * rho > q THEN q - rho
        ELSE IF odd THEN q - rho ELSE 0 - rho

\* The sign of fl(fl(p / q) * c) - c * p / q for p, q, c > 0 and c < 2^7.
\* The exact product lies gnum / q of a last place above the double below
\* c * p / q, moved by the error of the quotient.
ProductSide(p, q, c) ==
    LET e2 == Exponent(c * p, q)
        k == e2 - Exponent(p, q)
        gnum == Scaled(c * p, 52 - e2, q)
        odd == Scaled(c * p, 52 - e2, 2 * q) >= q
        power == IF e2 >= 0 THEN c * p = q * Pow2(e2) ELSE c * p * Pow2(0 - e2) = q
        tnum == gnum * Pow2(k) + c * DoubleError(p, q)
        tden == q * Pow2(k)
    IN  IF gnum = 0
        THEN IF tnum >= 0
             THEN IF 2 * tnum > tden \/ (2 * tnum = tden /\ odd) THEN 1 ELSE 0
             ELSE IF power
                  THEN IF 0 - 4 * tnum > tden THEN -1 ELSE 0
                  ELSE IF 0 - 2 * tnum > tden \/ (0 - 2 * tnum = tden /\ odd) THEN -1 ELSE 0
        ELSE IF 2 * tnum > tden \/ (2 * tnum = tden /\ odd) THEN 1 ELSE -1

\* fl(p / q) in units of 1 / tens, rounded as '%.nf' and the built-in round
\* do: the exact value of the double to the nearest unit, ties to even.
FormatMagnitude(p, q, tens) ==
    LET k == (p * tens) \div q
        rem == (p * tens) % q
    IN  IF 2 * rem < q THEN k
        ELSE IF 2 * rem > q THEN k + 1
        ELSE IF DoubleError(p, q) < 0 THEN k
        ELSE IF DoubleError(p, q) > 0 THEN k + 1
        ELSE IF k % 2 = 0 THEN k ELSE k + 1
FormatFixed(p, q, tens) ==
    IF p < 0 THEN 0 - FormatMagnitude(0 - p, q, tens) ELSE FormatMagnitude(p, q, tens)

\* fl(fl(p / q) * c) in units of 1 / tens, rounded to the nearest unit, ties
\* to even: f"{a / n * 100:.1f}" and the rint(x * 100) of np.round.
ProductMagnitude(p, q, c, tens) ==
    LET k == (p * c * tens) \div q
        rem == (p * c * tens) % q
    IN  IF 2 * rem < q THEN k
        ELSE IF 2 * rem > q THEN k + 1
        ELSE IF ProductSide(p, q, c) < 0 THEN k
        ELSE IF ProductSide(p, q, c) > 0 THEN k + 1
        ELSE IF k % 2 = 0 THEN k ELSE k + 1
FormatProduct(p, q, c, tens) ==
    IF p < 0 THEN 0 - ProductMagnitude(0 - p, q, c, tens)
    ELSE ProductMagnitude(p, q, c, tens)

\* round(x, 2) of the Python float x = num / den, NaN staying NaN; the
\* result is kept in hundredths.
Round2(x, den) == IF IsNum(x) THEN Num(FormatFixed(x.v, den, 100)) ELSE NaN

\* round(x, 2) of the np.float64 x = num / den, in hundredths.  NumPy from
\* 1.19 rounds a scalar as np.round does, rint(x * 100) / 100; before, a
\* np.float64 was rounded by the built-in round of float.  The two differ on
\* some decimal ties; how names the one the installed NumPy applies.
NumpyRounds == {"rint", "builtin"}

\* The rounding of the installed NumPy while no result of the run depends on
\* which of the two it is.
EitherRound == "either"
NpRound2(x, den, how) ==
    IF ~IsNum(x) THEN NaN
    ELSE IF how = "rint" THEN Num(FormatProduct(x.v, den, 100, 1))
    ELSE Num(FormatFixed(x.v, den, 100))

\* The sum of xs[lo..hi], NaN if any of them is NaN.
RECURSIVE FSum(_, _, _)
FSum(xs, lo, hi) ==
    IF lo > hi THEN Num(0)
    ELSE IF lo = hi THEN xs[lo]
    ELSE FAdd(CHOOSE s \in {FSum(xs, lo, (lo + hi) \div 2)} : TRUE,
              CHOOSE s \in {FSum(xs, (lo + hi) \div 2 + 1, hi)} : TRUE)

\* np.mean(xs) * len(xs)
NpSum(xs) == FSum(xs, 1, Len(xs))

\* np.max of a non-empty list: NaN if any value is NaN.
NpMax(xs) ==
    IF \E i \in 1..Len(xs) : ~IsNum(xs[i]) THEN NaN
    ELSE Num(CHOOSE m \in {xs[i].v : i \in 1..Len(xs)} : \A i \in 1..Len(xs) : xs[i].v <= m)

-----------------------------------------------------------------------------
(* Dates.  A date text "a/b/y" of a file is the record [a, b, y] of its    *)
(* three fields, the year written with four digits.                        *)

NaT == [k |-> "nat", d |-> 0, m |-> 0, y |-> 0]
Timestamp(d, m, y) == [k |-> "ts", d |-> d, m |-> m, y |-> y]

\* The number of days of month m of year y.
IsLeap(y) == y % 4 = 0 /\ (y % 100 # 0 \/ y % 400 = 0)
DaysInMonth(m, y) ==
    IF m = 2 THEN (IF IsLeap(y) THEN 29 ELSE 28)
    ELSE IF m \in {4, 6, 9, 11} THEN 30 ELSE 31

\* Day d of month m of year y exists and its midnight is a datetime64[ns]:
\* from 1677-09-22 to 2262-04-11.
IsDate(d, m, y) ==
    /\ m \in 1..12
    /\ d >= 1 /\ d <= DaysInMonth(m, y)
    /\ y * 10000 + m * 100 + d >= 16770922
    /\ y * 10000 + m * 100 + d <= 22620411

\* pd.to_datetime(text, format='%d/%m/%Y', errors='coerce'): day first, and
\* NaT when the text is no date in that format.
ToDatetimeDMY(text) ==
    IF text.y \in 1000..9999 /\ IsDate(text.a, text.b, text.y)
    THEN Timestamp(text.a, text.b, text.y)
    ELSE NaT

\* pd.Timestamp(text), the conversion a comparison of a datetime column with
\* a str applies: month first, day first only when the first field is no
\* month, NaT (the comparison is then invalid) when neither reading is a date.
ParseTimestamp(text) ==
    IF IsDate(text.b, text.a, text.y) THEN Timestamp(text.b, text.a, text.y)
    ELSE IF text.a > 12 /\ IsDate(text.a, text.b, text.y)
    THEN Timestamp(text.a, text.b, text.y)
    ELSE NaT

\* An index label of occ_df: a row position of the default RangeIndex, or
\* the text of the first field of the row when read_csv took the first
\* column as the index (data rows with one more field than the header).
PosLabel(i) == [k |-> "pos", a |-> i, b |-> 0, y |-> 0]
TextLabel(text) == [k |-> "text", a |-> text.a, b |-> text.b, y |-> text.y]

\* One element of load_df['Date'] == date: False for an integer label (an
\* invalid comparison), else equality with the label read as a Timestamp.
DateEq(ts, date) ==
    /\ date.k = "text"
    /\ ts.k = "ts"
    /\ ParseTimestamp(date).k = "ts"
    /\ ts = ParseTimestamp(date)

-----------------------------------------------------------------------------
(* The uploaded files and the widgets                                      *)

VARIABLES
    occ_file,     \* the OCC upload: [index_col, rows]; a row is [first, id, minutes]
    load_file,    \* the LOAD upload: [has_date, columns, rows]; a row is [date, id, cells]
    sustain,      \* the three number_input widgets
    peak,
    tolerance

\* The minute cells of an OCC row are given in runs: n cells that start at
\* cell and grow by step from one minute to the next.
Run(n, cell, step) == [n |-> n, cell |-> cell, step |-> step]

RECURSIVE RunsLen(_)
RunsLen(runs) == IF runs = <<>> THEN 0 ELSE runs[1].n + RunsLen(Tail(runs))

RECURSIVE CellAt(_, _)
CellAt(runs, i) ==
    IF i <= runs[1].n
    THEN IF runs[1].cell.k = "num"
         THEN [k |-> "num", v |-> runs[1].cell.v + runs[1].step * (i - 1)]
         ELSE runs[1].cell
    ELSE CellAt(Tail(runs), i - runs[1].n)

\* row_occ[col] for col in minute_cols, in column order.
MinuteCells(row) == [i \in 1..RunsLen(row.minutes) |-> CellAt(row.minutes, i)]

\* float(cell) for each minute cell of one OCC row, and 0 when float raises.
FloatOrZero(cells) ==
    [i \in 1..Len(cells) |-> IF FloatRaises(cells[i]) THEN Num(0) ELSE PyFloat(cells[i])]

-----------------------------------------------------------------------------
(* The state of one run of the script                                      *)

VARIABLES
    pc,           \* position of the run in the script
    tv_occ,       \* occ_df.iloc[0, 1]
    tv_load,      \* load_df.iloc[0, 1]
    tv_detected,  \* set once the two identifiers agree
    occ_index,    \* occ_df.index
    load_dates,   \* load_df['Date'] after pd.to_datetime
    load_cols,    \* the LOAD columns whose name holds ':' and '-'
    date_i,       \* position of the day loop in occ_df.index (from 1)
    row_load,     \* position in load_df of the row matched to the day, 0 if none
    occ_values,   \* the day's minute cells as floats
    col_i,        \* position of the window loop in load_cols (from 1)
    start,        \* (hour_start, min_start) of the column parsed last
    occ_window,   \* the window extracted last
    score_a,      \* its score_option_a
    score_b,      \* its score_option_b
    results,      \* the list of result records
    numpy_round,  \* the rounding of np.float64 the records met so far fix
    df_results,   \* the data frame of the records with a load
    shown,        \* the metrics and messages displayed so far
    csv_export    \* the rows offered for download

vars == <<occ_file, load_file, sustain, peak, tolerance, pc, tv_occ, tv_load,
          tv_detected, occ_index, load_dates, load_cols, date_i, row_load, occ_values,
          col_i, start, occ_window, score_a, score_b, results, numpy_round, df_results,
          shown, csv_export>>

inputs == <<occ_file, load_file, sustain, peak, tolerance>>
loaded == <<tv_occ, tv_load, occ_index, load_dates, load_cols>>
loop_vars == <<date_i, row_load, occ_values, col_i, start, occ_window, score_a, score_b,
               results, numpy_round>>

\* A displayed element: st.metric, st.warning, st.error, st.info, st.success,
\* with the number or the text it shows.
Shown(w, at, label, v) == [w |-> w, at |-> at, label |-> label, v |-> v, text |-> <<>>]
ShownText(w, at, label, text) == [w |-> w, at |-> at, label |-> label, v |-> 0, text |-> text]

\* None, the load of a window whose cell is no number.
None == [k |-> "none", v |-> 0]

\* notna() of a load: neither None nor NaN.
NotNa(x) == x.k = "num"

\* The position of a column name in the LOAD header.
ColumnOf(name) == CHOOSE c \in 1..Len(load_file.columns) : load_file.columns[c] = name

\* load_df[load_df['Date'] == date]: the positions of the matching rows.
MatchingRows(date) == {r \in 1..Len(load_dates) : DateEq(load_dates[r], date)}

\* occ_df.loc[date]: the positions of the rows that carry the label date.
LocRows(date) == {i \in 1..Len(occ_index) : occ_index[i] = date}

\* occ_values of the day at position i of the index.  occ_df.loc[date] is the
\* row of the label when one row carries it.  When several do it is a frame,
\* row_occ[col] is a Series, float raises on it and every minute is 0.
OccValues(i) ==
    IF Cardinality(LocRows(occ_index[i])) > 1
    THEN [m \in 1..RunsLen(occ_file.rows[i].minutes) |-> Num(0)]
    ELSE FloatOrZero(MinuteCells(occ_file.rows[i]))

LoadFiles ==
    /\ pc = "load"
    /\ tv_occ' = occ_file.rows[1].id
    /\ tv_load' = load_file.rows[1].id
    /\ occ_index' = [i \in 1..Len(occ_file.rows) |->
                        IF occ_file.index_col
                        THEN TextLabel(occ_file.rows[i].first)
                        ELSE PosLabel(i - 1)]
    /\ load_dates' = IF load_file.has_date
                     THEN [r \in 1..Len(load_file.rows) |-> ToDatetimeDMY(load_file.rows[r].date)]
                     ELSE <<>>
    /\ load_cols' = SelectSeq(load_file.columns, LAMBDA c : Contains(c, ":") /\ Contains(c, "-"))
    /\ shown' = shown \cup
          {ShownText("success", "top", "OCC", PyStr(occ_file.rows[1].id)),
           Shown("success", "top", "OCC lignes", Len(occ_file.rows)),
           Shown("success", "top", "OCC minutes", RunsLen(occ_file.rows[1].minutes)),
           ShownText("success", "top", "LOAD", PyStr(load_file.rows[1].id)),
           Shown("success", "top", "LOAD lignes", Len(load_file.rows)),
           Shown("success", "top", "LOAD fenetres",
                 Len(SelectSeq(load_file.columns,
                               LAMBDA c : Contains(c, ":") /\ Contains(c, "-"))))}
    /\ pc' = "tv_check"
    /\ UNCHANGED <<inputs, tv_detected, loop_vars, df_results, csv_export>>

\* A variant of the comparison: the identifiers as they stand in the files.
SameTV_raw(a, b) == PyStr(a) = PyStr(b)

\* The identifiers agree: str(tv_occ).strip() == str(tv_load).strip().
SameTV(a, b) == Strip(PyStr(a)) = Strip(PyStr(b))

CheckTV ==
    /\ pc = "tv_check"
    /\ IF ~SameTV(tv_occ, tv_load)
       THEN /\ shown' = shown \cup {Shown("error", "top", "TV differents", 0)}
            /\ pc' = "stopped"
            /\ UNCHANGED tv_detected
       ELSE /\ tv_detected' = Strip(PyStr(tv_occ))
            /\ shown' = shown \cup {ShownText("info", "top", "TV confirmee", Strip(PyStr(tv_occ)))}
            /\ pc' = "ready"
    /\ UNCHANGED <<inputs, loaded, loop_vars, df_results, csv_export>>

ClickCalculate ==
    /\ pc = "ready"
    /\ results' = <<>>
    /\ date_i' = 1
    /\ pc' = "days"
    /\ UNCHANGED <<inputs, loaded, tv_detected, row_load, occ_values, col_i, start,
                   occ_window, score_a, score_b, numpy_round, df_results, shown, csv_export>>

\* One turn of "for date in occ_df.index" up to the window loop.
NextDay ==
    /\ pc = "days"
    /\ date_i <= Len(occ_index)
    /\ IF ~load_file.has_date
       THEN \* load_df['Date'] raises KeyError
            /\ pc' = "crashed"
            /\ UNCHANGED <<date_i, row_load, occ_values, col_i>>
       ELSE IF MatchingRows(occ_index[date_i]) = {}
       THEN /\ date_i' = date_i + 1
            /\ row_load' = 0
            /\ UNCHANGED <<pc, occ_values, col_i>>
       ELSE /\ row_load' = CHOOSE r \in MatchingRows(occ_index[date_i]) :
                               \A q \in MatchingRows(occ_index[date_i]) : r <= q
            /\ occ_values' = OccValues(date_i)
            /\ col_i' = 1
            /\ pc' = "windows"
            /\ UNCHANGED date_i
    /\ UNCHANGED <<inputs, loaded, tv_detected, start, occ_window, score_a, score_b,
                   results, numpy_round, df_results, shown, csv_export>>

\* float(row_load[load_col]), None when float raises.
LoadValue(cell) == IF FloatRaises(cell) THEN None ELSE PyFloat(cell)

\* The record appended for one non-empty window; avg_occ and max_occ are
\* np.float64, rounded as the installed NumPy does (how).
Record(date, load_col, parsed, load_value, window, sa, sb, how) ==
    [Date |-> date, Window |-> load_col, Hour_Start |-> parsed.hour,
     Min_Start |-> parsed.minute, Load |-> load_value,
     Score_A |-> Round2(sa, Scale), Score_B |-> Round2(sb, Scale),
     Avg_OCC |-> NpRound2(NpSum(window), Scale * Len(window), how),
     Max_OCC |-> NpRound2(NpMax(window), Scale, how)]

\* results.append of the record of a window, given under either rounding
\* of NumPy.  Where the two records differ, the run shows which rounding the
\* installed NumPy applies, and that one stays for the rest of the run.
AppendRecord(rint, builtin) ==
    IF rint = builtin
    THEN /\ results' = Append(results, rint)
         /\ UNCHANGED numpy_round
    ELSE \E how \in {h \in NumpyRounds : numpy_round \in {EitherRound, h}} :
            /\ results' = Append(results, IF how = "rint" THEN rint ELSE builtin)
            /\ numpy_round' = how

\* The body of the window loop from the scores on, for the window extracted.
StoreWindow(load_col, parsed, window, sa, sb, load_value) ==
    /\ occ_window' = window
    /\ score_a' = sa
    /\ score_b' = sb
    /\ IF window = <<>>
       THEN \* np.max of an empty list raises ValueError
            /\ pc' = "crashed"
            /\ UNCHANGED <<results, numpy_round>>
       ELSE /\ AppendRecord(Record(occ_index[date_i], load_col, parsed, load_value,
                                   window, sa, sb, "rint"),
                            Record(occ_index[date_i], load_col, parsed, load_value,
                                   window, sa, sb, "builtin"))
            /\ UNCHANGED pc

\* The body of the window loop for a column whose name parses.
ScoreWindow(load_col, parsed, window) ==
    StoreWindow(load_col, parsed, window,
                score_option_a(window, sustain, tolerance),
                score_option_b(window, sustain, tolerance, peak),
                LoadValue(load_file.rows[row_load].cells[ColumnOf(load_col)]))

\* The body of the window loop for one column.
WindowTurn(load_col, parsed) ==
    /\ col_i' = col_i + 1
    /\ start' = parsed
    /\ UNCHANGED date_i
    /\ IF ~parsed.ok
       THEN UNCHANGED <<pc, occ_window, score_a, score_b, results, numpy_round>>
       ELSE ScoreWindow(load_col, parsed,
                        ExtractWindow(occ_values, parsed.hour, parsed.minute))

\* One turn of "for load_col in load_cols", and the end of that loop.
NextWindow ==
    /\ pc = "windows"
    /\ IF col_i > Len(load_cols)
       THEN /\ date_i' = date_i + 1
            /\ pc' = "days"
            /\ UNCHANGED <<col_i, start, occ_window, score_a, score_b, results, numpy_round>>
       ELSE WindowTurn(load_cols[col_i], parse_load_column(load_cols[col_i]))
    /\ UNCHANGED <<inputs, loaded, tv_detected, row_load, occ_values, df_results,
                   shown, csv_export>>

\* df_results = pd.DataFrame(results); df_results[df_results['Load'].notna()]
BuildDataFrame ==
    /\ pc = "days"
    /\ date_i > Len(occ_index)
    /\ IF results = <<>>
       THEN \* a frame without columns: df_results['Load'] raises KeyError
            /\ pc' = "crashed"
            /\ UNCHANGED <<df_results, shown>>
       ELSE /\ df_results' = SelectSeq(results, LAMBDA rec : NotNa(rec.Load))
            /\ shown' = shown \cup
                  {Shown("success", "top", "fenetres analysees",
                         Len(SelectSeq(results, LAMBDA rec : NotNa(rec.Load)))),
                   Shown("success", "top", "par jour",
                         FormatFixed(Len(SelectSeq(results, LAMBDA rec : NotNa(rec.Load))),
                                     Len(occ_file.rows), 1))}
            /\ pc' = "overview"
    /\ UNCHANGED <<inputs, loaded, tv_detected, loop_vars, csv_export>>

-----------------------------------------------------------------------------
(* Series helpers of the display sections.  Scores of a record are floats  *)
(* in hundredths, loads are floats that hold whole aircraft per hour.      *)

\* The values of a column of a frame, in row order.
Column(df, name) == [i \in 1..Len(df) |-> df[i][name]]

\* The non-NaN values of a series, as integers.
Valid(xs) == LET ok == SelectSeq(xs, IsNum) IN [i \in 1..Len(ok) |-> ok[i].v]

RECURSIVE IntSum(_, _)
IntSum(xs, n) == IF n = 0 THEN 0 ELSE IntSum(xs, n - 1) + xs[n]

IntMin(xs) == CHOOSE m \in {xs[i] : i \in 1..Len(xs)} : \A i \in 1..Len(xs) : m <= xs[i]
IntMax(xs) == CHOOSE m \in {xs[i] : i \in 1..Len(xs)} : \A i \in 1..Len(xs) : xs[i] <= m

\* Every value of a series of hundredths is a multiple of 0.25: the doubles
\* hold the values, and their sums, exactly.
ExactDoubles(xs) == \A i \in 1..Len(xs) : xs[i] % 25 = 0

\* f"{xs.mean():.1f}" in tenths, for a non-empty series xs of values in
\* 1 / unit.  The mean is the double nearest to sum / count when the sum is
\* exact; when it is not, a mean on a decimal tie falls on either side.
FormatMean(xs, unit, exact) ==
    LET sum == IntSum(xs, Len(xs))
        q == unit * Len(xs)
    IN  IF exact \/ 2 * ((sum * 10) % q) # q
        THEN {FormatFixed(sum, q, 10)}
        ELSE {(sum * 10) \div q, (sum * 10) \div q + 1}

\* The values of xs in increasing order.
RECURSIVE Insert(_, _)
Insert(sorted, x) ==
    IF sorted = <<>> THEN <<x>>
    ELSE IF x <= sorted[1] THEN <<x>> \o sorted
    ELSE <<sorted[1]>> \o Insert(Tail(sorted), x)

RECURSIVE Sorted(_, _)
Sorted(xs, n) == IF n = 0 THEN <<>> ELSE Insert(Sorted(xs, n - 1), xs[n])

\* Series.quantile(q / 100) of a non-empty series without NaN, times 100:
\* linear interpolation between the two order statistics around q/100*(n-1).
Quantile(xs, q) ==
    LET sorted == Sorted(xs, Len(xs))
        pos == q * (Len(xs) - 1)
        lo == pos \div 100
        frac == pos % 100
    IN  IF frac = 0 THEN sorted[lo + 1] * 100
        ELSE sorted[lo + 1] * 100 + frac * (sorted[lo + 2] - sorted[lo + 1])

\* f"{x:.0f}" of a double that holds x = x100 / 100 exactly
Format0(x100) == RoundHalfEven(x100, 100)

\* f"{xs.quantile(q / 100):.0f}".  The interpolation is exact in doubles
\* when the fraction of q/100*(n-1) is a multiple of 1/4, which it is for
\* P50 and P75.  For P90 the fraction is the double of a multiple of 1/10 and
\* a quantile on a tie k + 0.5 is a double just below or just above it,
\* the side depending on the interpolation formula of the installed NumPy.
FormatQuantile(xs, q) ==
    IF Quantile(xs, q) % 100 = 50 /\ (q * (Len(xs) - 1)) % 100 \notin {0, 25, 50, 75}
    THEN {Quantile(xs, q) \div 100, Quantile(xs, q) \div 100 + 1}
    ELSE {Format0(Quantile(xs, q))}

\* df_results[df_results[score] > bar]: the rows whose score exceeds bar.
ScoreAbove(df, score, bar) == SelectSeq(df, LAMBDA rec : FGt(rec[score], bar * 100))

\* The loads of the viable rows of a frame under one scoring method.
ViableLoads(df, score) == Valid(Column(ScoreAbove(df, score, ViabilityBar), "Load"))

\* pd.cut(load, bins=[0, 20, 30, 40, 50, 60, 70, 200]): the right-closed bin.
Bins == <<0, 20, 30, 40, 50, 60, 70, 200>>
LoadBucket(load) ==
    IF \E b \in 1..(Len(Bins) - 1) : Bins[b] < load.v /\ load.v <= Bins[b + 1]
    THEN Num(CHOOSE b \in 1..(Len(Bins) - 1) : Bins[b] < load.v /\ load.v <= Bins[b + 1])
    ELSE NaN

-----------------------------------------------------------------------------
(* Series.corr.  The sums of squares of a Pearson coefficient pass the     *)
(* 32-bit range of the integers, so they are held as natural numbers in    *)
(* base BigBase: the list of the digits, the lowest first, zero being <<>>.*)

BigBase == 10000

RECURSIVE BigOfNat(_)
BigOfNat(n) == IF n = 0 THEN <<>> ELSE <<n % BigBase>> \o BigOfNat(n \div BigBase)

\* x + y + c
RECURSIVE BigAddCarry(_, _, _)
BigAddCarry(x, y, c) ==
    IF x = <<>> /\ y = <<>> THEN BigOfNat(c)
    ELSE IF x = <<>> THEN BigAddCarry(y, x, c)
    ELSE IF y = <<>>
    THEN <<(x[1] + c) % BigBase>> \o BigAddCarry(Tail(x), y, (x[1] + c) \div BigBase)
    ELSE <<(x[1] + y[1] + c) % BigBase>>
             \o BigAddCarry(Tail(x), Tail(y), (x[1] + y[1] + c) \div BigBase)
BigAdd(x, y) == BigAddCarry(x, y, 0)

\* x * d + c for a digit d > 0
RECURSIVE BigTimesDigit(_, _, _)
BigTimesDigit(x, d, c) ==
    IF x = <<>> THEN BigOfNat(c)
    ELSE <<(x[1] * d + c) % BigBase>> \o BigTimesDigit(Tail(x), d, (x[1] * d + c) \div BigBase)

\* x * BigBase
BigShift(x) == IF x = <<>> THEN x ELSE <<0>> \o x

RECURSIVE BigMul(_, _)
BigMul(x, y) ==
    IF x = <<>> \/ y = <<>> THEN <<>>
    ELSE IF y[1] = 0 THEN BigShift(BigMul(x, Tail(y)))
    ELSE BigAdd(BigTimesDigit(x, y[1], 0), BigShift(BigMul(x, Tail(y))))

\* x < y
RECURSIVE BigLess(_, _)
BigLess(x, y) ==
    IF Len(x) # Len(y) THEN Len(x) < Len(y)
    ELSE IF x = <<>> THEN FALSE
    ELSE IF x[Len(x)] # y[Len(y)] THEN x[Len(x)] < y[Len(y)]
    ELSE BigLess(SubSeq(x, 1, Len(x) - 1), SubSeq(y, 1, Len(y) - 1))

\* x without zeros at its top
RECURSIVE BigTrim(_)
BigTrim(x) ==
    IF x = <<>> \/ x[Len(x)] # 0 THEN x ELSE BigTrim(SubSeq(x, 1, Len(x) - 1))

\* x - y - c for x >= y + c
RECURSIVE BigSubBorrow(_, _, _)
BigSubBorrow(x, y, c) ==
    IF x = <<>> THEN x
    ELSE IF y = <<>>
    THEN <<(x[1] - c + BigBase) % BigBase>>
             \o BigSubBorrow(Tail(x), y, IF x[1] - c < 0 THEN 1 ELSE 0)
    ELSE <<(x[1] - y[1] - c + BigBase) % BigBase>>
             \o BigSubBorrow(Tail(x), Tail(y), IF x[1] - y[1] - c < 0 THEN 1 ELSE 0)
BigSub(x, y) == BigTrim(BigSubBorrow(x, y, 0))

\* |x - y|
BigDiff(x, y) == IF BigLess(x, y) THEN BigSub(y, x) ELSE BigSub(x, y)

\* |v| of an integer
Abs(v) == IF v < 0 THEN 0 - v ELSE v

\* The sum of |xs[i] * ys[i]| over the rows where the product has the sign
\* sign, for two series of integers of one length.
RECURSIVE SumProducts(_, _, _, _)
SumProducts(xs, ys, sign, n) ==
    IF n = 0 THEN <<>>
    ELSE IF (xs[n] > 0 /\ ys[n] > 0) \/ (xs[n] < 0 /\ ys[n] < 0) <=> sign > 0
    THEN BigAdd(SumProducts(xs, ys, sign, n - 1),
                BigMul(BigOfNat(Abs(xs[n])), BigOfNat(Abs(ys[n]))))
    ELSE SumProducts(xs, ys, sign, n - 1)

\* n * sum(x * y) - sum(x) * sum(y), the covariance of two series times n^2,
\* as the pair of what counts for it and what counts against it.
Covariance(xs, ys) ==
    LET n == BigOfNat(Len(xs))
        sx == IntSum(xs, Len(xs))
        sy == IntSum(ys, Len(ys))
        cross == BigMul(BigOfNat(Abs(sx)), BigOfNat(Abs(sy)))
        same == (sx >= 0 /\ sy >= 0) \/ (sx <= 0 /\ sy <= 0)
    IN  [plus |-> BigAdd(BigMul(n, SumProducts(xs, ys, 1, Len(xs))),
                         IF same THEN <<>> ELSE cross),
         minus |-> BigAdd(BigMul(n, SumProducts(xs, ys, -1, Len(xs))),
                          IF same THEN cross ELSE <<>>)]

\* The number of m in lo..(hi - 1) for which the coefficient r, of square
\* c2 / ab, reaches (2 * m + 1) / 2000 + slack / 10^7: the thousandths to
\* which r - slack / 10^7 rounds.
RECURSIVE Thousandths(_, _, _, _, _)
Thousandths(c2, ab, slack, lo, hi) ==
    IF lo = hi THEN lo
    ELSE LET mid == (lo + hi) \div 2
             t == BigOfNat((2 * mid + 1) * 5000 + slack)
         IN  IF BigLess(c2, BigMul(BigMul(t, t), ab))
             THEN Thousandths(c2, ab, slack, lo, mid)
             ELSE Thousandths(c2, ab, slack, mid + 1, hi)

\* f"{a.corr(b):.3f}" in thousandths: the outcomes for two series of
\* hundredths, a NaN of either dropping the row.  np.corrcoef gives NaN for
\* fewer than two rows and for a series without variance; where the doubles
\* do not hold the values exactly, the rounding of the mean leaves such a
\* series a variance of its own.  The coefficient is computed in doubles:
\* within 10^-7 of a tie of the third decimal it rounds to either side.
Correlation(a, b) ==
    LET rows == {i \in 1..Len(a) : IsNum(a[i]) /\ IsNum(b[i])}
        at(k) == CHOOSE i \in rows : Cardinality({j \in rows : j < i}) = k - 1
        xs == [k \in 1..Cardinality(rows) |-> a[at(k)].v]
        ys == [k \in 1..Cardinality(rows) |-> b[at(k)].v]
        var_x == Covariance(xs, xs)
        var_y == Covariance(ys, ys)
        cov == Covariance(xs, ys)
        ab == BigMul(BigDiff(var_x.plus, var_x.minus), BigDiff(var_y.plus, var_y.minus))
        c == BigDiff(cov.plus, cov.minus)
        c2 == BigMul(BigMul(c, c), BigMul(BigOfNat(10000000), BigOfNat(10000000)))
        sign == IF BigLess(cov.plus, cov.minus) THEN -1 ELSE 1
    IN  IF Cardinality(rows) < 2 THEN {NaN}
        ELSE IF ab = <<>>
        THEN IF ExactDoubles(xs) /\ ExactDoubles(ys) THEN {NaN}
             ELSE {NaN, Num(-1000), Num(0), Num(1000)}
        ELSE {Num(sign * Thousandths(c2, ab, 1, 0, 1000)),
              Num(sign * Thousandths(c2, ab, -1, 0, 1000))}

-----------------------------------------------------------------------------
(* The display sections of the Calculate block                             *)

\* "Vue d'ensemble": the four metrics.  Percentages and the mean load are
\* kept in tenths, as f"{x:.1f}" writes them.
Overview ==
    /\ pc = "overview"
    /\ IF Len(df_results) = 0
       THEN \* viable_a / len(df_results) raises ZeroDivisionError
            /\ pc' = "crashed"
            /\ UNCHANGED shown
       ELSE LET n == Len(df_results)
                viable_a == Len(ScoreAbove(df_results, "Score_A", 0))
                viable_b == Len(ScoreAbove(df_results, "Score_B", 0))
                loads == Valid(Column(df_results, "Load"))
            IN  /\ shown' = shown \cup
                      {Shown("metric", "overview", "Viables (A)",
                             FormatProduct(viable_a, n, 100, 10)),
                       Shown("metric", "overview", "Viables (B)",
                             FormatProduct(viable_b, n, 100, 10)),
                       Shown("metric", "overview", "Charge moyenne",
                             FormatFixed(IntSum(loads, n), n, 10)),
                       Shown("metric", "overview", "Charge max", IntMax(loads))}
                /\ pc' = "tabs"
    /\ UNCHANGED <<inputs, loaded, tv_detected, loop_vars, df_results, csv_export>>

\* The three metrics under the chart of one tab, for each outcome of the
\* mean: the mean and the minimum of the scores in tenths (NaN scores
\* skipped), and MV (P75) when a window is viable.
TabStats(at, score) ==
    LET scores == Valid(Column(df_results, score))
        viable == ViableLoads(df_results, score)
        mv == IF Len(viable) > 0
              THEN {Shown("metric", at, "MV (P75)", Format0(Quantile(viable, 75)))}
              ELSE {}
    IN  IF scores = <<>>
        THEN {{Shown("metric", at, "Score moyen nan", 0),
               Shown("metric", at, "Score min nan", 0)} \cup mv}
        ELSE {{Shown("metric", at, "Score moyen", mean),
               Shown("metric", at, "Score min", FormatFixed(IntMin(scores), 100, 10))} \cup mv :
                 mean \in FormatMean(scores, 100, ExactDoubles(scores))}

\* The st.info under the chart of the tab "Comparaison".
TabCompare(corr) ==
    IF IsNum(corr)
    THEN Shown("info", "tab_ab", "Correlation A-B", corr.v)
    ELSE Shown("info", "tab_ab", "Correlation A-B nan", 0)

Tabs ==
    /\ pc = "tabs"
    /\ \E stats_a \in TabStats("tab_a", "Score_A") :
       \E stats_b \in TabStats("tab_b", "Score_B") :
       \E corr \in Correlation(Column(df_results, "Score_A"), Column(df_results, "Score_B")) :
           shown' = shown \cup stats_a \cup stats_b \cup {TabCompare(corr)}
    /\ pc' = "tranches"
    /\ UNCHANGED <<inputs, loaded, tv_detected, loop_vars, df_results, csv_export>>

\* "Analyse par tranche de charge": df_results gets the Load_Bucket column.
Tranches ==
    /\ pc = "tranches"
    /\ df_results' = [i \in 1..Len(df_results) |->
                         [Date |-> df_results[i].Date, Window |-> df_results[i].Window,
                          Hour_Start |-> df_results[i].Hour_Start,
                          Min_Start |-> df_results[i].Min_Start,
                          Load |-> df_results[i].Load,
                          Score_A |-> df_results[i].Score_A,
                          Score_B |-> df_results[i].Score_B,
                          Avg_OCC |-> df_results[i].Avg_OCC,
                          Max_OCC |-> df_results[i].Max_OCC,
                          Load_Bucket |-> LoadBucket(df_results[i].Load)]]
    /\ pc' = "identify"
    /\ UNCHANGED <<inputs, loaded, tv_detected, loop_vars, shown, csv_export>>

\* One column of "Identification MV", for each outcome of P90.
Identification(at, score) ==
    LET viable_loads == ViableLoads(df_results, score)
    IN  IF Len(viable_loads) > MinViable
        THEN {{Shown("metric", at, "MV P50", Format0(Quantile(viable_loads, 50))),
               Shown("metric", at, "MV P75", Format0(Quantile(viable_loads, 75))),
               Shown("metric", at, "MV P90", mv_p90),
               Shown("info", at, "fenetres viables", Len(viable_loads))} :
                 mv_p90 \in FormatQuantile(viable_loads, 90)}
        ELSE {{Shown("warning", at, "Pas assez de donnees", 0)}}

IdentifyMV ==
    /\ pc = "identify"
    /\ \E column_a \in Identification("mv_a", "Score_A") :
       \E column_b \in Identification("mv_b", "Score_B") :
           shown' = shown \cup column_a \cup column_b
    /\ pc' = "export"
    /\ UNCHANGED <<inputs, loaded, tv_detected, loop_vars, df_results, csv_export>>

Export ==
    /\ pc = "export"
    /\ csv_export' = df_results
    /\ pc' = "done"
    /\ UNCHANGED <<inputs, loaded, tv_detected, loop_vars, df_results, shown>>

-----------------------------------------------------------------------------
(* The runs explored: the uploads and the widget values                    *)

\* Largest number of rows of the OCC upload and of the LOAD upload.
MaxDays == 2
MaxLoadRows == 2

\* Sector identifiers as they stand in the files: "LFEE", the same between
\* a tab and a no-break space followed by a line feed, "LFMM", and "123 ".
TV_LFEE == Text(<<"L", "F", "E", "E">>)
TV_LFEE_padded == <<9>> \o TV_LFEE \o <<160, 10>>
TV_LFMM == Text(<<"L", "F", "M", "M">>)
TV_123_padded == Text(<<"1", "2", "3", " ">>)

\* The identifiers of the two files: equal, equal once stripped, a number
\* and its text, different, and an empty field against a text.
TVPairs ==
    {[occ |-> StrCell(TV_LFEE), load |-> StrCell(TV_LFEE)],
     [occ |-> StrCell(TV_LFEE_padded), load |-> StrCell(TV_LFEE)],
     [occ |-> IntCell(123), load |-> StrCell(TV_123_padded)],
     [occ |-> StrCell(TV_LFEE), load |-> StrCell(TV_LFMM)],
     [occ |-> NaNCell, load |-> StrCell(TV_LFEE)]}

\* (SUSTAIN, TOLERANCE, PEAK): the defaults, a tolerance of half a unit, and
\* a PEAK below the viable ceiling, which the widgets allow.
ThresholdSettings ==
    {[sustain |-> 20 * Scale, tolerance |-> Scale, peak |-> 25 * Scale],
     [sustain |-> 20 * Scale, tolerance |-> Scale \div 2, peak |-> 25 * Scale],
     [sustain |-> 20 * Scale, tolerance |-> Scale, peak |-> 10 * Scale]}

\* The minute cells of one day.  A file without any 'Duration 11 Min'
\* column has no minute cell in any row (bare).
DayPatterns ==
    [calm  |-> <<Run(DayMinutes, Num(15 * Scale), 0)>>,
     hot   |-> <<Run(DayMinutes, Num(22 * Scale), 0)>>,
     peaky |-> <<Run(50, Num(15 * Scale), 0), Run(10, Num(30 * Scale), 0),
                 Run(9, Num(15 * Scale + 1), 0),
                 Run(DayMinutes - 69, Num(15 * Scale), 0)>>,
     ramp  |-> <<Run(DayMinutes, Num(0), 1)>>,
     gappy |-> <<Run(5, NaN, 0), Run(5, TxtCell, 0), Run(DayMinutes - 10, Num(15 * Scale), 0)>>,
     edge  |-> <<Run(52, Num(21 * Scale), 0), Run(6, Num(22 * Scale), 0),
                 Run(2, Num(26 * Scale), 0), Run(DayMinutes - 60, Num(25 * Scale), 0)>>,
     bare  |-> <<>>]

\* The date text of row i of a file under a plan for its dates:
\* "15/01/2024", "16/01/2024", .. (day first beyond doubt), "15/01/2024" in
\* every row, "02/01/2024", "03/01/2024", .. (read month first by
\* pd.Timestamp), "01/02/2024", "01/03/2024", .. and "31/02/2024",
\* "31/04/2024", .. which are no dates.
DateText(plan, i) ==
    CASE plan = "dayfirst"   -> [a |-> 14 + i, b |-> 1, y |-> 2024]
      [] plan = "repeated"   -> [a |-> 15, b |-> 1, y |-> 2024]
      [] plan = "monthfirst" -> [a |-> 1 + i, b |-> 1, y |-> 2024]
      [] plan = "swapped"    -> [a |-> 1, b |-> 1 + i, y |-> 2024]
      [] OTHER               -> [a |-> 31, b |-> 2 * i, y |-> 2024]

\* An OCC upload with the identifier id: the index is the default one (plan
\* "range") or the first column; the first of the n days follows the pattern
\* p and the other days are calm.
OccUpload(plan, n, p, id) ==
    [index_col |-> plan # "range",
     rows |-> [i \in 1..n |->
                  [first |-> DateText(IF plan = "range" THEN "dayfirst" ELSE plan, i),
                   id |-> id,
                   minutes |-> IF i = 1 \/ p = "bare"
                               THEN DayPatterns[p] ELSE DayPatterns["calm"]]]]

\* The OCC uploads explored: those whose labels differ from row to row, and
\* some whose rows all carry the same label.
OccUploads(id) ==
    {OccUpload(plan, n, p, id) :
        plan \in {"range", "dayfirst", "monthfirst"},
        n \in 1..MaxDays,
        p \in DOMAIN DayPatterns}
    \cup {OccUpload("repeated", n, p, id) : n \in 2..MaxDays, p \in {"hot", "gappy"}}

\* The header of the LOAD upload: the identifier column, seven windows that
\* parse (one with a sign, one with an underscore between the digits of the
\* hour, one after a tab; two start at or past the end of the day) and two
\* that do not.
LoadHeader ==
    << Text(<<"I", "D">>),
       Text(<<"0", ":", "0", "0", "-", "1", ":", "0", "0">>),
       Text(<<"+", "0", ":", "2", "0", "-", "1", ":", "2", "0">>),
       Text(<<"1", "_", "0", ":", "2", "0", "-", "1", "1", ":", "2", "0">>),
       <<9>> \o Text(<<"2", "3", ":", "2", "0", "-", "0", ":", "2", "0">>),
       Text(<<"2", "3", ":", "5", "0", "-", "0", ":", "5", "0">>),
       Text(<<"2", "4", ":", "0", "0", "-", "2", "5", ":", "0", "0">>),
       Text(<<"2", "4", ":", "1", "0", "-", "2", "5", ":", "1", "0">>),
       Text(<<"x", ":", "0", "0", "-", "1", ":", "0", "0">>),
       Text(<<"1", ":", "2", ":", "3", "-", "4">>) >>

\* The cell of row r and column c of the LOAD upload under a plan.
LoadCell(plan, r, c) ==
    CASE plan = "numeric" -> Num(20 + 6 * c + r)
      [] plan = "mixed"   -> IF c % 2 = 1 THEN Num(20 + 6 * c + r)
                             ELSE IF c % 4 = 0 THEN NaN ELSE TxtCell
      [] OTHER            -> IF c % 2 = 1 THEN NaN ELSE TxtCell

\* The LOAD uploads with the identifier id.
LoadUploads(id) ==
    {[has_date |-> dates # "none",
      columns |-> LoadHeader,
      rows |-> [r \in 1..n |->
                   [date |-> DateText(dates, r),
                    id |-> id,
                    cells |-> [c \in 1..Len(LoadHeader) |-> LoadCell(cells, r, c)]]]] :
        dates \in {"none", "dayfirst", "monthfirst", "swapped", "invalid"},
        n \in 1..MaxLoadRows,
        cells \in {"numeric", "mixed", "blank"}}

\* The state of the script before it reads the uploads.
Fresh ==
    /\ pc = "load"
    /\ tv_occ = StrCell(<<>>)
    /\ tv_load = StrCell(<<>>)
    /\ tv_detected = <<>>
    /\ occ_index = <<>>
    /\ load_dates = <<>>
    /\ load_cols = <<>>
    /\ date_i = 0
    /\ row_load = 0
    /\ occ_values = <<>>
    /\ col_i = 0
    /\ start = NoStart
    /\ occ_window = <<>>
    /\ score_a = Num(0)
    /\ score_b = Num(0)
    /\ results = <<>>
    /\ numpy_round = EitherRound
    /\ df_results = <<>>
    /\ shown = {}
    /\ csv_export = <<>>

Init ==
    /\ \E tv \in TVPairs :
          /\ occ_file \in OccUploads(tv.occ)
          /\ load_file \in LoadUploads(tv.load)
    /\ \E th \in ThresholdSettings :
          /\ sustain = th.sustain
          /\ tolerance = th.tolerance
          /\ peak = th.peak
    /\ Fresh

Next ==
    \/ LoadFiles
    \/ CheckTV
    \/ ClickCalculate
    \/ NextDay
    \/ NextWindow
    \/ BuildDataFrame
    \/ Overview
    \/ Tabs
    \/ Tranches
    \/ IdentifyMV
    \/ Export

Spec == Init /\ [][Next]_vars

\* The runs that reach the scoring of windows: the identifiers agree, the
\* first column of the OCC upload is its index and holds the dates of the
\* LOAD upload, every load is a number.
InitScoring ==
    /\ Init
    /\ occ_file.index_col
    /\ occ_file.rows[1].first = DateText("dayfirst", 1)
    /\ load_file.has_date
    /\ load_file.rows[1].date = DateText("dayfirst", 1)
    /\ occ_file.rows[1].id = load_file.rows[1].id
    /\ \A r \in 1..Len(load_file.rows) : \A c \in 1..Len(load_file.columns) :
          c > 1 => load_file.rows[r].cells[c].k = "num"

SpecScoring == InitScoring /\ [][Next]_vars

-----------------------------------------------------------------------------
(* Properties                                                              *)

\* The viable ceiling of the run.
Ceiling == sustain + tolerance

\* The step taken last extracted and scored occ_window from occ_values.
WindowScored == pc = "windows" /\ col_i > 1 /\ start.ok

\* x < y and x > y for two floats: False when either is NaN.
FLess(x, y) == IsNum(x) /\ IsNum(y) /\ x.v < y.v
FMore(x, y) == FLess(y, x)

\* A window of n minutes, all at occupancy v.
Flat(n, v) == [i \in 1..n |-> Num(v)]

\* What one minute adds to Score A: +1 up to the ceiling, else the negated
\* excess over it.
ContributionA(occ, s, t) ==
    IF FLe(occ, s + t) THEN Num(Scale) ELSE FSub(Num(s + t), occ)

\* What one minute adds to Score B: +1 up to the ceiling, else 0 up to PEAK,
\* else minus twice the excess over PEAK.
ContributionB(occ, s, t, p) ==
    IF FLe(occ, s + t) THEN Num(Scale)
    ELSE IF FLe(occ, p) THEN Num(0)
    ELSE FSub(Num(2 * p), FAdd(occ, occ))

\* C1: score_option_a returns the sum over the window's minutes of +1 for a
\* minute at or below SUSTAIN+TOLERANCE and of -(occupancy - SUSTAIN -
\* TOLERANCE) for any other minute; 60 minutes at 22 with SUSTAIN = 20 and
\* TOLERANCE = 1 give -60, and 60 minutes at 15 give +60.
C1_ScoreAIsSumOfContributions ==
    /\ occ_window # <<>> =>
          score_a = NpSum([i \in 1..Len(occ_window) |->
                              ContributionA(occ_window[i], sustain, tolerance)])
    /\ score_option_a(Flat(60, 22 * Scale), 20 * Scale, Scale) = Num(-60 * Scale)
    /\ score_option_a(Flat(60, 15 * Scale), 20 * Scale, Scale) = Num(60 * Scale)

\* A window of 60 minutes at 22 has been scored -60 under SUSTAIN = 20,
\* TOLERANCE = 1.
C1_Witness ==
    /\ WindowScored
    /\ occ_window = Flat(60, 22 * Scale)
    /\ sustain = 20 * Scale /\ tolerance = Scale
    /\ score_a = Num(-60 * Scale)

\* C2: score_option_b returns the sum over the window's minutes of +1 for a
\* minute at or below SUSTAIN+TOLERANCE, else 0 for a minute at or below
\* PEAK, else -2 * (occupancy - PEAK); 50 minutes at 15 and 10 at 30 with
\* SUSTAIN = 20, TOLERANCE = 1, PEAK = 25 give -50, 60 minutes at 15 give +60.
C2_ScoreBIsSumOfContributions ==
    /\ occ_window # <<>> =>
          score_b = NpSum([i \in 1..Len(occ_window) |->
                              ContributionB(occ_window[i], sustain, tolerance, peak)])
    /\ score_option_b(Flat(50, 15 * Scale) \o Flat(10, 30 * Scale),
                      20 * Scale, Scale, 25 * Scale) = Num(-50 * Scale)
    /\ score_option_b(Flat(60, 15 * Scale), 20 * Scale, Scale, 25 * Scale) = Num(60 * Scale)

\* The window of 50 minutes at 15 and 10 at 30 has been scored -50 under the
\* default thresholds.
C2_Witness ==
    /\ WindowScored
    /\ occ_window = Flat(50, 15 * Scale) \o Flat(10, 30 * Scale)
    /\ sustain = 20 * Scale /\ tolerance = Scale /\ peak = 25 * Scale
    /\ score_b = Num(-50 * Scale)

\* C3: the window of every parsed label has exactly 60 values, the k-th of
\* them the day's value at index (hour * 60 + minute + k) mod 1440.
C3_WindowIsCircularSlice ==
    WindowScored =>
        /\ Len(occ_window) = 60
        /\ \A k \in 0..(Len(occ_window) - 1) :
              occ_window[k + 1] =
                  occ_values[((start.hour * 60 + start.minute + k) % 1440) + 1]

\* The part of C3 the code keeps: the same for the labels that start within
\* the day or at its very end (hour * 60 + minute <= 1440).
WindowIsCircularSliceWithinDay ==
    (WindowScored /\ start.hour * 60 + start.minute <= 1440) =>
        /\ Len(occ_window) = 60
        /\ \A k \in 0..59 :
              occ_window[k + 1] =
                  occ_values[((start.hour * 60 + start.minute + k) % 1440) + 1]

\* The MV metrics displayed: MV (P75) of a tab, MV P50 / P75 / P90 of the
\* identification section.
MVMetrics ==
    {e \in shown : e.w = "metric" /\ e.label \in {"MV (P75)", "MV P50", "MV P75", "MV P90"}}

\* The score column a display section works on.
ScoreOf(at) == IF at \in {"tab_a", "mv_a"} THEN "Score_A" ELSE "Score_B"

\* C4: an MV value is displayed for a scoring method only when more than 10
\* windows have a score above 30 under it; otherwise MV is reported as
\* undefined.
C4_MVOnlyAboveTenViable ==
    /\ \A e \in MVMetrics : Len(ViableLoads(df_results, ScoreOf(e.at))) > 10
    /\ pc = "done" =>
          \A at \in {"mv_a", "mv_b"} :
              Len(ViableLoads(df_results, ScoreOf(at))) <= 10 =>
                  Shown("warning", at, "Pas assez de donnees", 0) \in shown

\* The day of an OCC row: its date, read day first as the files write it.
OccDay(i) == ToDatetimeDMY(occ_file.rows[i].first)

\* The rows of the LOAD file for the day of OCC row i.
LoadRowsOfDay(i) ==
    {r \in 1..Len(load_file.rows) :
        /\ load_file.has_date
        /\ OccDay(i).k = "ts"
        /\ ToDatetimeDMY(load_file.rows[r].date) = OccDay(i)}

\* The (day, window) pairs that have a load: the day has a row in the LOAD
\* file, and the value of that row for the window is a number.
PairsWithLoad ==
    {<<i, c>> \in (1..Len(occ_file.rows)) \X (1..Len(load_cols)) :
        /\ LoadRowsOfDay(i) # {}
        /\ parse_load_column(load_cols[c]).ok
        /\ \E r \in LoadRowsOfDay(i) :
              /\ \A q \in LoadRowsOfDay(i) : r <= q
              /\ load_file.rows[r].cells[ColumnOf(load_cols[c])].k = "num"}

\* The date a record carries.
DateOfRecord(rec) ==
    IF rec.Date.k = "text" THEN ToDatetimeDMY(rec.Date) ELSE NaT

\* The day loop has ended.
LoopEnded == pc = "days" /\ date_i > Len(occ_index)

\* C5: after the Calculate loop the records with a load are one for each
\* (day, window) pair whose day has a row of the same date in the LOAD file
\* with a numeric value for the window, each with that day's date and load.
C5_OneRecordPerDayWindow ==
    LoopEnded =>
        /\ Len(SelectSeq(results, LAMBDA rec : NotNa(rec.Load))) = Cardinality(PairsWithLoad)
        /\ \A pair \in PairsWithLoad :
              \E n \in 1..Len(results) :
                  /\ results[n].Window = load_cols[pair[2]]
                  /\ DateOfRecord(results[n]) = OccDay(pair[1])
                  /\ \E r \in LoadRowsOfDay(pair[1]) :
                        results[n].Load =
                            PyFloat(load_file.rows[r].cells[ColumnOf(load_cols[pair[2]])])

\* Something of the Calculate block has been produced.
Produced ==
    \/ results # <<>>
    \/ occ_window # <<>>
    \/ df_results # <<>>
    \/ csv_export # <<>>
    \/ \E e \in shown : e.at # "top"

\* C6: when the identifiers of the two files differ once stripped, the run
\* stops with an error before any scoring and produces nothing; when they
\* are equal the run goes on with the stripped identifier.
C6_MismatchStopsTheRun ==
    pc # "load" =>
        IF Strip(PyStr(occ_file.rows[1].id)) # Strip(PyStr(load_file.rows[1].id))
        THEN /\ pc \in {"tv_check", "stopped"}
             /\ ~Produced
             /\ tv_detected = <<>>
             /\ pc = "stopped" => Shown("error", "top", "TV differents", 0) \in shown
        ELSE /\ pc # "stopped"
             /\ pc # "tv_check" => tv_detected = Strip(PyStr(occ_file.rows[1].id))

\* A run has stopped on two identifiers that differ.
C6_Witness ==
    /\ pc = "stopped"
    /\ tv_occ = StrCell(TV_LFEE) /\ tv_load = StrCell(TV_LFMM)
    /\ Shown("error", "top", "TV differents", 0) \in shown

\* C7: every missing or unparsable occupancy cell of the day is 0 in
\* occ_values, every value of occ_values is a number and so are both scores
\* of every window.
C7_OccValuesAreNumbers ==
    pc = "windows" =>
        /\ \A i \in 1..Len(occ_values) : IsNum(occ_values[i])
        /\ col_i = 1 =>
              \A i \in 1..Len(occ_values) :
                  MinuteCells(occ_file.rows[date_i])[i].k # "num" => occ_values[i] = Num(0)
        /\ WindowScored => IsNum(score_a) /\ IsNum(score_b)

\* C8: a run with too few viable windows for an MV, the runs without any
\* record included, ends without an error and reports MV as undefined.
C8_TooFewViableNeverCrashes ==
    (load_file.has_date
        /\ Len(ViableLoads(df_results, "Score_A")) <= 10
        /\ Len(ViableLoads(df_results, "Score_B")) <= 10) =>
        /\ pc # "crashed"
        /\ pc = "done" =>
              /\ Shown("warning", "mv_a", "Pas assez de donnees", 0) \in shown
              /\ Shown("warning", "mv_b", "Pas assez de donnees", 0) \in shown

\* The window with minute k (from 1) raised to the occupancy v.
Raised(w, k, v) == [w EXCEPT ![k] = Num(v)]

\* The occupancies a minute is raised to: just above PEAK, just above the
\* ceiling, and far above both.
RaisedValues == {peak + 1, Ceiling + 1, 40 * Scale}

\* Every minute of w is a number.
AllNumbers(w) == \A i \in 1..Len(w) : IsNum(w[i])

\* C9 as claimed: raising one minute of a window never increases Score B,
\* and strictly decreases it when the larger value is above PEAK.
C9_RaisingAbovePeakStrictlyDecreases ==
    (WindowScored /\ AllNumbers(occ_window)) =>
        \A k \in 1..Len(occ_window) : \A v \in RaisedValues :
            v > occ_window[k].v =>
                /\ ~FMore(score_option_b(Raised(occ_window, k, v), sustain, tolerance, peak),
                          score_b)
                /\ v > peak =>
                      FLess(score_option_b(Raised(occ_window, k, v), sustain, tolerance, peak),
                            score_b)

\* C9 as amended: raising one minute of a window never increases Score B,
\* and strictly decreases it when the larger value is above both PEAK and
\* SUSTAIN+TOLERANCE and every minute of the window is a number.
C9_RaisingNeverIncreases ==
    WindowScored =>
        \A k \in 1..Len(occ_window) : \A v \in RaisedValues :
            (IsNum(occ_window[k]) /\ v > occ_window[k].v) =>
                /\ ~FMore(score_option_b(Raised(occ_window, k, v), sustain, tolerance, peak),
                          score_b)
                /\ (v > peak /\ v > Ceiling /\ AllNumbers(occ_window)) =>
                      FLess(score_option_b(Raised(occ_window, k, v), sustain, tolerance, peak),
                            score_b)

\* A window has been scored in which a minute at or below the ceiling can be
\* raised above PEAK and the ceiling.
C9_Witness ==
    /\ WindowScored
    /\ AllNumbers(occ_window)
    /\ peak > Ceiling
    /\ \E k \in 1..Len(occ_window) : occ_window[k].v <= Ceiling
    /\ IsNum(score_b)

\* The minutes of a window at or below the ceiling.
ViableMinutes(w) == {i \in 1..Len(w) : FLe(w[i], Ceiling)}

\* C10: for a window of 60 minutes, a Score A or Score B above 30 means that
\* more than half of the minutes (at least 31) are at or below
\* SUSTAIN+TOLERANCE; no score exceeds 60, and a score is 60 exactly when
\* every minute is at or below SUSTAIN+TOLERANCE.
C10_ViableScoreMeansMajority ==
    (occ_window # <<>> /\ Len(occ_window) = 60) =>
        \A score \in {score_a, score_b} :
            /\ FGt(score, 30 * Scale) => Cardinality(ViableMinutes(occ_window)) >= 31
            /\ ~FGt(score, 60 * Scale)
            /\ score = Num(60 * Scale) <=> Cardinality(ViableMinutes(occ_window)) = 60

\* A window of 60 minutes has a Score A above 30 and below 60: some of its
\* minutes are above the ceiling.
C10_Witness ==
    /\ WindowScored
    /\ Len(occ_window) = 60
    /\ FGt(score_a, 30 * Scale)
    /\ score_a # Num(60 * Scale)
    /\ Cardinality(ViableMinutes(occ_window)) \in 31..59

====
